---- MODULE Spec2Model ----
(***************************************************************************)
(* Live-stream signaling of src/unnamed/part_004: the broadcaster hook     *)
(* useLiveStream and the viewer hook useStreamViewer, which negotiate one  *)
(* WebRTC transport per viewer over a pub/sub topic; and the revision of    *)
(* the two hooks in src/src/hooks/useLiveStream.tsx, where the viewer      *)
(* makes the offer.                                                        *)
(*                                                                         *)
(* JavaScript runs one task at a time: every action below is one task      *)
(* (a call, a message handler, a timer callback, a transport event) run    *)
(* up to its next await, or the continuation of one await up to the next.  *)
(***************************************************************************)
EXTENDS Integers, Sequences, FiniteSets, TLC

\* ------------------------------------------------------------------ bounds
MaxCand == 1            \* distinct ICE candidates a side may produce
MaxPending == 1         \* length of the viewer's pending-candidate array
MaxLeakedSubs == 1      \* subscriptions of the viewer no handle refers to
MaxOfferTasks == 1      \* offer handlers of the viewer suspended at once
MaxLeakedTimeouts == 1  \* abandonment timeouts armed but no longer referenced
MaxOps == 2             \* unsettled operations on one RTCPeerConnection
MaxStreams == 2         \* live_streams rows the broadcaster creates
MaxLost == 1            \* messages the topic loses
MaxAttempts == 2        \* connect() calls of one viewer, viewer-offer revision

Cand == 1..MaxCand
NULL == "null"
\* Identities, stream ids and stream keys are opaque strings in the program;
\* here they are numbers, 0 standing for null or absent.
Self == 1                         \* viewerId.current of the modelled viewer
Other == 2                        \* the identity of some other viewer
Ident == {Self, Other}
User == 3                         \* user?.id of a signed-in viewer
Keys == Ident \cup {User}          \* what peerConnectionsRef may be keyed by
NoTo == 0                         \* a message without recipient
StreamIds == 1..MaxStreams        \* ids the database gives to live_streams rows
StreamKey(id) == 10 + id          \* the generateId() result stored with row id

\* ---------------------------------------------------------------- variables
VARIABLES
  \* useStreamViewer
  userId,                     \* user?.id: 0 for an anonymous viewer
  streamId,                   \* the argument of useStreamViewer(streamId)
  isConnected, isConnecting,  \* React state
  isConnectingRef,
  remoteStream,               \* TRUE: a remote MediaStream is shown
  peerConnectionRef,          \* the RTCPeerConnection the ref holds, or NoPc
  channelRef,                 \* NULL, or the state of the subscription it holds
  leakedSubs,                 \* subscriptions made and never removed
  pendingViewerCandidatesRef, \* the array the ref holds
  received,                   \* history: the candidates handled that the
                              \* transport, or the next one, is still to have
  retryIntervalRef,           \* TRUE: holds the handle of a live interval
  connectionTimeoutRef,       \* "armed": holds the handle of a pending timeout;
                              \* NULL: holds null or the handle of one that fired
  leakedTimeouts,             \* armed timeouts no handle refers to
  viewerRecordKeyRef,         \* NULL, or which column carries the key
  presenceInFlight,           \* the kinds of live_viewers upserts in flight
  presenceRow,                \* the viewer's live_viewers row
  offerTasks,                 \* suspended offer handlers, in the order of the
                              \* pc's operations chain
  vInbox,                     \* stream-signal messages delivered, not yet handled
  \* useLiveStream
  state,                      \* React state: StreamState
  stateRef,                   \* stateRef.current
  localStreamRef,             \* TRUE: holds a MediaStream
  peerConnectionsRef,         \* the map: identity -> RTCPeerConnection or NoBPc
  strayPcs,                   \* per identity, open RTCPeerConnections not in the map
  bChannelRef,                \* 0 or the stream id of the channels it holds
  bSubs,                      \* stream ids whose channels the broadcaster listens on
  bInbox,                     \* viewer-signal messages and live_viewers INSERT
                              \* notifications delivered, not yet handled
  startPos, startExt,         \* startStream in progress: its await, its externalUrl
  stopPos,                    \* stopStream in progress: its await
  nextStream,                 \* the id of the next live_streams row
  bReceived, bLast,           \* history: see SpecBH
  lost,                       \* history: the messages the topic has lost
  \* src/src/hooks/useLiveStream.tsx, useLiveStream
  offerPcs,                   \* the RTCPeerConnections made for the offers handled
  peerConnectionsMap,         \* peerConnectionsRef.current: identity -> the
                              \* attempt whose RTCPeerConnection it holds, or 0
  queuedIceMapRef,            \* identity -> the array queued for it
  handledOffers,              \* history: the offer and ice messages handled
  droppedIce,                 \* history: the candidates whose addIceCandidate
                              \* rejected
  \* src/src/hooks/useLiveStream.tsx, useStreamViewer
  pcRef,                      \* the attempt whose RTCPeerConnection it holds, or 0
  attemptPcs,                 \* the RTCPeerConnections connect() has made
  queuedIceRef,               \* the array the ref holds
  connectFlags,               \* React state: isConnecting, isConnected
  handledSignals,             \* history: the answer and ice messages handled
  droppedSignals              \* history: the candidates whose addIceCandidate
                              \* rejected

vvars == <<userId, streamId, received, isConnected, isConnecting, isConnectingRef, remoteStream,
           peerConnectionRef, channelRef, leakedSubs,
           pendingViewerCandidatesRef, retryIntervalRef,
            connectionTimeoutRef, leakedTimeouts, viewerRecordKeyRef,
           presenceInFlight, presenceRow, offerTasks, vInbox>>

\* what viewer code never writes, and what broadcaster code never writes
bstate == <<state, stateRef, localStreamRef, peerConnectionsRef, strayPcs,
            bChannelRef, startPos, startExt, stopPos, nextStream>>
vstate == <<userId, streamId, received, isConnected, isConnecting, isConnectingRef, remoteStream,
            peerConnectionRef, channelRef, leakedSubs,
            pendingViewerCandidatesRef, retryIntervalRef,
            connectionTimeoutRef, leakedTimeouts, viewerRecordKeyRef,
            presenceInFlight, presenceRow, offerTasks>>

bhist == <<bReceived, bLast, lost>>

\* the state of the hooks of src/src/hooks/useLiveStream.tsx
offerBroadcaster == <<offerPcs, peerConnectionsMap, queuedIceMapRef,
                      handledOffers, droppedIce>>
offerViewer == <<pcRef, attemptPcs, queuedIceRef, connectFlags,
                 handledSignals, droppedSignals>>

vars == <<vvars, bstate, bSubs, bInbox, bhist, offerBroadcaster, offerViewer>>

\* ------------------------------------------------------------------ helpers
Msg(type, from, to, signal) ==
  [type |-> type, from |-> from, to |-> to, signal |-> signal]

NoMsg == Msg("none", 0, 0, 0)

\* An RTCPeerConnection of the viewer. The ref is set when one is created and
\* reset only where it is closed (lines 686-689, 713-716), so the viewer has at
\* most one open RTCPeerConnection, the one the ref holds; st = "none" is
\* peerConnectionRef.current = null; offer is signalingState =
\* "have-remote-offer".
NoPc == [st |-> "none", remote |-> FALSE, local |-> FALSE, offer |-> FALSE,
         applied |-> {}, conn |-> "new", from |-> 0]

Range(f) == {f[i] : i \in DOMAIN f}

Min(S) == CHOOSE x \in S : \A y \in S : x <= y

\* The isConnected that connect() reads: the value of the render in which the
\* memoised callback was created. Its dependencies (streamId,
\* handleBroadcasterSignal, user?.id) are fixed here, so that is the first
\* render, where useState(false) gives false.
connectClosureIsConnected == FALSE

\* channelRef.current?.send(...): broadcast on the topic of streamId; whoever
\* listens on that topic when it is published receives it.
ViewerSend(ch, msgs) ==
  bInbox' = IF ch # NULL /\ streamId \in bSubs THEN bInbox \cup msgs ELSE bInbox

JoinMsg == Msg("viewer-join", Self, NoTo, 0)

\* --------------------------------------------------------- useStreamViewer

\* connect(), lines 627-641: the guard, the flags, the new subscription. The
\* subscribe callback runs later (Subscribed).
connect ==
  IF isConnectingRef \/ connectClosureIsConnected
  THEN UNCHANGED vars
  ELSE /\ IF channelRef = NULL                    \* line 638 overwrites the
          THEN UNCHANGED <<leakedSubs, vInbox>>     \* handle of a live channel
          ELSE LET free == {i \in DOMAIN leakedSubs : leakedSubs[i] = "none"}
               IN /\ free # {}
                  /\ leakedSubs' = [leakedSubs EXCEPT ![Min(free)] = channelRef]
                  /\ vInbox' = {IF d[1] = 0 THEN <<Min(free), d[2]>> ELSE d : d \in vInbox}
       /\ channelRef' = "joining"
       /\ isConnecting' = TRUE
       /\ isConnectingRef' = TRUE
       /\ UNCHANGED <<userId, streamId, received, isConnected, remoteStream, peerConnectionRef,
                      pendingViewerCandidatesRef, retryIntervalRef,
                      connectionTimeoutRef, leakedTimeouts,
                      viewerRecordKeyRef, presenceInFlight, presenceRow,
                      offerTasks, bSubs, bInbox>>

\* The subscribe callback of a subscription with status SUBSCRIBED, lines
\* 641-693; s = 0 is the subscription channelRef holds, s > 0 a leaked one.
\* The client reports SUBSCRIBED on every successful (re)join of the channel,
\* so a joined subscription may report it again.
Subscribed(s) ==
  /\ IF s = 0 THEN channelRef # NULL ELSE leakedSubs[s] # "none"
  /\ connectionTimeoutRef = "armed" => leakedTimeouts < MaxLeakedTimeouts
  /\ IF s = 0
     THEN channelRef' = "joined" /\ UNCHANGED leakedSubs
     ELSE leakedSubs' = [leakedSubs EXCEPT ![s] = "joined"] /\ UNCHANGED channelRef
  /\ ViewerSend(channelRef, {JoinMsg})                       \* line 656
  /\ retryIntervalRef' = TRUE                                \* lines 659-660
  /\ viewerRecordKeyRef' = IF userId # 0 THEN "user" ELSE "anon"
  /\ presenceInFlight' = presenceInFlight \cup {"join"}      \* lines 664-673
  /\ leakedTimeouts' = IF connectionTimeoutRef = "armed"     \* line 676: the
                        THEN leakedTimeouts + 1              \* old handle is
                        ELSE leakedTimeouts                  \* overwritten
  /\ connectionTimeoutRef' = "armed"
  /\ UNCHANGED <<userId, streamId, received, isConnected, isConnecting, isConnectingRef,
                 remoteStream, peerConnectionRef,
                 pendingViewerCandidatesRef, presenceRow,
                 offerTasks, vInbox, bSubs>>

\* sendJoinSignal run by the retry interval, lines 646-660.
RetryTick ==
  /\ retryIntervalRef
  /\ ViewerSend(channelRef, {JoinMsg})
  /\ UNCHANGED <<vvars, bSubs>>

\* peerConnectionRef.current.close(); peerConnectionRef.current = null. An
\* operation pending on a closed RTCPeerConnection never settles with success,
\* so the handlers suspended on it run no further.
ClosePeerConnection ==
  /\ peerConnectionRef' = NoPc
  /\ offerTasks' = <<>>
  /\ received' = Range(pendingViewerCandidatesRef)

\* The connection-timeout callback, lines 676-691. Timeouts all last 45 s, so
\* an older (leaked) one fires before the one the handle refers to.
ConnectionTimeout ==
  /\ leakedTimeouts > 0 \/ connectionTimeoutRef = "armed"
  /\ IF leakedTimeouts > 0
     THEN /\ leakedTimeouts' = leakedTimeouts - 1
          /\ UNCHANGED connectionTimeoutRef
     ELSE /\ connectionTimeoutRef' = NULL
          /\ UNCHANGED leakedTimeouts
  /\ retryIntervalRef' = FALSE
  /\ isConnecting' = FALSE
  /\ isConnectingRef' = FALSE
  /\ isConnected' = FALSE
  /\ ClosePeerConnection
  /\ remoteStream' = FALSE
  /\ UNCHANGED <<userId, streamId, channelRef, leakedSubs, pendingViewerCandidatesRef,
                 viewerRecordKeyRef, presenceInFlight,
                 presenceRow, vInbox, bSubs, bInbox>>

\* A disconnect that writes the leave record whether or not it holds a key.
MarkViewerLeftAlways ==
  /\ presenceInFlight' = presenceInFlight \cup {"leave"}
  /\ viewerRecordKeyRef' = viewerRecordKeyRef

\* "Mark viewer left" of disconnect(), lines 722-736.
MarkViewerLeft ==
  /\ presenceInFlight' = IF viewerRecordKeyRef # NULL
                         THEN presenceInFlight \cup {"leave"}
                         ELSE presenceInFlight
  /\ viewerRecordKeyRef' = NULL

\* disconnect(), lines 696-737.
disconnect ==
  /\ connectionTimeoutRef' = NULL
  /\ retryIntervalRef' = FALSE
  /\ channelRef' = NULL                                      \* lines 708-711
  /\ ClosePeerConnection
  /\ remoteStream' = FALSE
  /\ isConnected' = FALSE
  /\ isConnecting' = FALSE
  /\ isConnectingRef' = FALSE
  /\ MarkViewerLeft
  \* a removed channel delivers nothing more
  /\ vInbox' = {d \in vInbox : d[1] # 0}
  /\ UNCHANGED <<userId, streamId, leakedSubs, pendingViewerCandidatesRef, leakedTimeouts, presenceRow, bSubs, bInbox>>

\* A suspended offer handler: the await it is at, the sender of its offer,
\* and for the drain loop the array it iterates, its position in it, and
\* whether that array is still the one the ref holds.
Task(pos, from) == [pos |-> pos, from |-> from, idx |-> 0, arr |-> <<>>, live |-> FALSE]

\* handleBroadcasterSignal for an offer, lines 545-598: up to the first await.
OfferReceived(m) ==
  /\ Len(offerTasks) < MaxOfferTasks
  /\ retryIntervalRef' = FALSE                                \* lines 547-550
  /\ peerConnectionRef' =
       IF peerConnectionRef.st = "none"                       \* lines 554-557
       THEN [NoPc EXCEPT !.st = "open", !.from = m.from]
       ELSE peerConnectionRef
  /\ offerTasks' = Append(offerTasks, Task("srd", m.from))
  /\ UNCHANGED <<userId, streamId, received, isConnected, isConnecting, isConnectingRef,
                 remoteStream, channelRef, leakedSubs,
                 pendingViewerCandidatesRef, connectionTimeoutRef, leakedTimeouts, viewerRecordKeyRef,
                 presenceInFlight, presenceRow, bSubs, bInbox>>

\* An ice-candidate handler without the buffer: a candidate that cannot be
\* applied is discarded.
IceCandidateUnbuffered(m) ==
  /\ peerConnectionRef' =
       IF peerConnectionRef.st = "open" /\ peerConnectionRef.remote
       THEN [peerConnectionRef EXCEPT !.applied = @ \cup {m.signal}]
       ELSE peerConnectionRef
  /\ UNCHANGED <<userId, streamId, isConnected, isConnecting, isConnectingRef,
                 remoteStream, channelRef, leakedSubs,
                 pendingViewerCandidatesRef, retryIntervalRef,
                 connectionTimeoutRef, leakedTimeouts, viewerRecordKeyRef,
                 presenceInFlight, presenceRow, offerTasks, bSubs, bInbox>>

\* handleBroadcasterSignal for an ice-candidate, lines 616-624. A push reaches
\* every drain loop that iterates the same array object.
IceCandidateReceived(m) ==
  /\ IF peerConnectionRef.st = "open" /\ peerConnectionRef.remote
     THEN /\ peerConnectionRef' = [peerConnectionRef EXCEPT !.applied = @ \cup {m.signal}]
          /\ UNCHANGED <<pendingViewerCandidatesRef, offerTasks>>
     ELSE /\ Len(pendingViewerCandidatesRef) < MaxPending
          /\ pendingViewerCandidatesRef' = Append(pendingViewerCandidatesRef, m.signal)
          /\ offerTasks' = [t \in DOMAIN offerTasks |->
                IF offerTasks[t].live
                THEN [offerTasks[t] EXCEPT !.arr = Append(@, m.signal)]
                ELSE offerTasks[t]]
          /\ UNCHANGED peerConnectionRef
  /\ UNCHANGED <<userId, streamId, isConnected, isConnecting, isConnectingRef,
                 remoteStream, channelRef, leakedSubs, retryIntervalRef,
                 connectionTimeoutRef, leakedTimeouts,
                 viewerRecordKeyRef, presenceInFlight, presenceRow, bSubs,
                 bInbox>>

\* A handler without the test of lines 536-539: it handles every message,
\* whoever it is addressed to.
handleAnySignal(m) ==
  IF m.type = "offer" THEN OfferReceived(m)
  ELSE /\ m.type = "ice-candidate"
       /\ IceCandidateReceived(m)
       /\ received' = received \cup {m.signal}

\* handleBroadcasterSignal, lines 532-625, for one delivered message; the
\* caller removes the message from where it came.
handleBroadcasterSignal(m) ==
  IF m.to # NoTo /\ m.to # Self                               \* lines 536-539
  THEN UNCHANGED <<userId, streamId, received, isConnected, isConnecting, isConnectingRef,
                   remoteStream, peerConnectionRef, channelRef, leakedSubs,
                   pendingViewerCandidatesRef, retryIntervalRef,
            connectionTimeoutRef, leakedTimeouts, viewerRecordKeyRef,
                   presenceInFlight, presenceRow, offerTasks, bSubs, bInbox>>
  ELSE IF m.type = "offer" THEN OfferReceived(m)
  ELSE /\ m.type = "ice-candidate"
       /\ IceCandidateReceived(m)
       /\ received' = received \cup {m.signal}

\* The operations of one RTCPeerConnection settle in the order they were
\* called (its operations chain): the handler at the head of offerTasks is
\* the one whose await settles next, and it then calls its next operation.
Requeue(task) == Append(Tail(offerTasks), task)

\* pc.setRemoteDescription(offer) settles, lines 598-600. The track events of
\* an offer are fired when its description is applied, before the promise
\* resolves: pc.ontrack, lines 570-581.
SetRemoteDescriptionDone ==
  LET ontrack == ~peerConnectionRef.remote
  IN /\ offerTasks # <<>> /\ Head(offerTasks).pos = "srd"
     /\ offerTasks' = Requeue([Head(offerTasks) EXCEPT !.pos = "answer"])
     /\ peerConnectionRef' = [peerConnectionRef EXCEPT !.remote = TRUE,
                                                       !.offer = TRUE]
     /\ remoteStream' = IF ontrack THEN TRUE ELSE remoteStream
     /\ isConnected' = IF ontrack THEN TRUE ELSE isConnected
     /\ isConnecting' = IF ontrack THEN FALSE ELSE isConnecting
     /\ isConnectingRef' = IF ontrack THEN FALSE ELSE isConnectingRef
     /\ connectionTimeoutRef' = IF ontrack THEN NULL ELSE connectionTimeoutRef
     /\ UNCHANGED <<userId, streamId, received, channelRef, leakedSubs,
                    pendingViewerCandidatesRef, retryIntervalRef,
                    leakedTimeouts, viewerRecordKeyRef,
                    presenceInFlight, presenceRow, vInbox, bSubs, bInbox>>

\* pc.createAnswer() settles, lines 600-601. It rejects, and the handler
\* ends, if the answer to the offer has been applied by another handler.
CreateAnswerDone ==
  /\ offerTasks # <<>> /\ Head(offerTasks).pos = "answer"
  /\ offerTasks' = IF peerConnectionRef.offer
                   THEN Requeue([Head(offerTasks) EXCEPT !.pos = "sld"])
                   ELSE Tail(offerTasks)
  /\ UNCHANGED <<userId, streamId, received, isConnected, isConnecting, isConnectingRef,
                 remoteStream, peerConnectionRef, channelRef, leakedSubs,
                 pendingViewerCandidatesRef, retryIntervalRef,
                 connectionTimeoutRef, leakedTimeouts,
                 viewerRecordKeyRef, presenceInFlight, presenceRow, vInbox,
                 bSubs, bInbox>>

\* pc.setLocalDescription(answer) settles, lines 601-612: the answer is sent
\* and the drain loop calls addIceCandidate for the first pending candidate.
\* It rejects, and the handler ends, if the answer of another handler has
\* been applied in the meantime (signalingState is "stable").
SetLocalDescriptionDone ==
  LET task == Head(offerTasks)
  IN /\ offerTasks # <<>> /\ task.pos = "sld"
     /\ IF peerConnectionRef.offer
        THEN /\ offerTasks' =
                  IF Len(pendingViewerCandidatesRef) > 0
                  THEN Requeue([task EXCEPT !.pos = "drain", !.idx = 1, !.live = TRUE,
                                            !.arr = pendingViewerCandidatesRef])
                  ELSE Tail(offerTasks)
             /\ peerConnectionRef' = [peerConnectionRef EXCEPT !.local = TRUE,
                                                               !.offer = FALSE]
             /\ ViewerSend(channelRef, {Msg("answer", Self, task.from, 0)})
        ELSE /\ offerTasks' = Tail(offerTasks)
             /\ UNCHANGED <<peerConnectionRef, bInbox>>
     /\ UNCHANGED <<userId, streamId, received, isConnected, isConnecting, isConnectingRef,
                    remoteStream, channelRef, leakedSubs,
                    pendingViewerCandidatesRef, retryIntervalRef,
                    connectionTimeoutRef, leakedTimeouts,
                    viewerRecordKeyRef, presenceInFlight, presenceRow, vInbox,
                    bSubs>>

\* pc.addIceCandidate(c) of the drain loop settles, lines 611-615: the next
\* candidate, or the end of the loop, where the ref gets a new empty array.
AddIceCandidateDone ==
  LET task == Head(offerTasks)
      last == task.idx = Len(task.arr)
  IN /\ offerTasks # <<>> /\ task.pos = "drain"
     /\ offerTasks' =
          IF last
          THEN [t \in 1..(Len(offerTasks) - 1) |->
                  [Tail(offerTasks)[t] EXCEPT !.live = FALSE]]
          ELSE Requeue([task EXCEPT !.idx = @ + 1])
     /\ peerConnectionRef' =
          [peerConnectionRef EXCEPT !.applied = @ \cup {task.arr[task.idx]}]
     /\ pendingViewerCandidatesRef' =
          IF last THEN <<>> ELSE pendingViewerCandidatesRef
     /\ UNCHANGED <<userId, streamId, received, isConnected, isConnecting, isConnectingRef,
                    remoteStream, channelRef, leakedSubs, retryIntervalRef,
                    connectionTimeoutRef, leakedTimeouts,
                    viewerRecordKeyRef, presenceInFlight, presenceRow, vInbox,
                    bSubs, bInbox>>

\* The connectionState values an RTCPeerConnection that has both descriptions
\* can move to.
NextConnectionState(from) ==
  CASE from = "new" -> {"connected", "failed"}
    [] from = "connected" -> {"disconnected"}
    [] from = "disconnected" -> {"connected", "failed"}
    [] OTHER -> {}

\* An onconnectionstatechange that also gives up the subscription when the
\* transport is failed or disconnected.
ViewerConnectionStateUnsubscribes(cs) ==
  /\ peerConnectionRef.st = "open"
  /\ peerConnectionRef.local /\ peerConnectionRef.remote
  /\ cs \in NextConnectionState(peerConnectionRef.conn)
  /\ peerConnectionRef' = [peerConnectionRef EXCEPT !.conn = cs]
  /\ isConnected' = (cs = "connected")
  /\ isConnecting' = FALSE
  /\ isConnectingRef' = FALSE
  /\ remoteStream' = IF cs = "connected" THEN remoteStream ELSE FALSE
  /\ channelRef' = IF cs = "connected" THEN channelRef ELSE NULL
  /\ UNCHANGED <<userId, streamId, received, leakedSubs,
                 pendingViewerCandidatesRef, retryIntervalRef,
                 connectionTimeoutRef, leakedTimeouts, viewerRecordKeyRef,
                 presenceInFlight, presenceRow, offerTasks, vInbox, bSubs,
                 bInbox>>

\* pc.onconnectionstatechange of the viewer's pc, lines 583-595.
ViewerConnectionState(cs) ==
  /\ peerConnectionRef.st = "open"
  /\ peerConnectionRef.local /\ peerConnectionRef.remote
  /\ cs \in NextConnectionState(peerConnectionRef.conn)
  /\ peerConnectionRef' = [peerConnectionRef EXCEPT !.conn = cs]
  /\ isConnected' = (cs = "connected")
  /\ isConnecting' = FALSE
  /\ isConnectingRef' = FALSE
  /\ remoteStream' = IF cs = "connected" THEN remoteStream ELSE FALSE
  /\ UNCHANGED <<userId, streamId, received, channelRef, leakedSubs,
                 pendingViewerCandidatesRef, retryIntervalRef,
            connectionTimeoutRef, leakedTimeouts, viewerRecordKeyRef,
                 presenceInFlight, presenceRow, offerTasks, vInbox, bSubs,
                 bInbox>>

\* pc.onicecandidate of the viewer's pc, lines 559-568.
ViewerIceCandidate(c) ==
  /\ peerConnectionRef.st = "open"
  /\ peerConnectionRef.local
  /\ ViewerSend(channelRef, {Msg("ice-candidate", Self, peerConnectionRef.from, c)})
  /\ UNCHANGED <<vvars, bSubs>>

\* A live_viewers upsert lands, lines 664-673 and 726-734: the join write
\* sets joined_at and clears left_at, the leave write sets left_at. The
\* upserts are separate requests and land in any order; upserts of one kind
\* write the same columns, so those in flight together count as one.
PresenceLands(kind) ==
  /\ kind \in presenceInFlight
  /\ presenceInFlight' = presenceInFlight \ {kind}
  /\ presenceRow' = IF kind = "join" THEN "open" ELSE "left"
  \* a new row: the INSERT is notified to the broadcaster's viewers channel, lines 166-186
  /\ bInbox' = IF presenceRow = "none" /\ streamId \in bSubs
               THEN bInbox \cup {Msg("insert", IF userId = 0 THEN Self ELSE userId,
                                     NoTo, 0)}
               ELSE bInbox
  /\ UNCHANGED <<userId, streamId, received, isConnected, isConnecting, isConnectingRef,
                 remoteStream, peerConnectionRef, channelRef, leakedSubs,
                 pendingViewerCandidatesRef, retryIntervalRef,
                 connectionTimeoutRef, leakedTimeouts, viewerRecordKeyRef,
                 offerTasks, vInbox, bSubs>>

\* ------------------------------------------------------------ useLiveStream
NoState == [isStreaming |-> FALSE, streamId |-> 0, streamKey |-> 0,
            externalStreamUrl |-> FALSE]

\* An RTCPeerConnection of the broadcaster: ops is its operations chain, the
\* calls of createOffer, setLocalDescription and setRemoteDescription that
\* have not settled, in the order they were made; unhandled is set when a
\* promise of one of its operations rejected in a handler that catches
\* nothing, so that the rejection left the handler.
NoBPc == [st |-> "none", senders |-> FALSE, local |-> FALSE, remote |-> FALSE,
          ops |-> <<>>, applied |-> {}, conn |-> "new", unhandled |-> FALSE]

\* signalingState = "have-local-offer": the only state in which
\* setRemoteDescription(answer) resolves.
AwaitsAnswer(pc) == pc.local /\ ~pc.remote

\* The subscriptions of the viewer that have joined the topic: 0 is the one
\* channelRef holds.
JoinedSubs ==
  (IF channelRef = "joined" THEN {0} ELSE {})
    \cup {i \in DOMAIN leakedSubs : leakedSubs[i] = "joined"}

\* channelRef.current?.send(...) of the broadcaster: every joined subscription
\* to the topic of that stream receives the message.
BroadcasterSend(msgs) ==
  vInbox' = IF bChannelRef # 0 /\ bChannelRef = streamId
            THEN vInbox \cup (JoinedSubs \X msgs)
            ELSE vInbox

\* The RTCPeerConnection createPeerConnection makes, lines 104-147, up to
\* its first await: the tracks of the local stream, and the call of
\* createOffer if there are any.
NewPeerConnection ==
  [NoBPc EXCEPT !.st = "open",
                !.senders = localStreamRef,                  \* lines 109-114
                !.ops = IF localStreamRef THEN <<"offer">> ELSE <<>>]

\* A createPeerConnection without the test of lines 100-102: the entry of
\* viewerId is overwritten, and what it held stays open.
createPeerConnectionAnyway(viewerId) ==
  /\ peerConnectionsRef' = [peerConnectionsRef EXCEPT ![viewerId] = NewPeerConnection]
  /\ strayPcs' = [strayPcs EXCEPT ![viewerId] =
                    IF peerConnectionsRef[viewerId].st = "none" THEN @ ELSE 1]

\* createPeerConnection(viewerId), lines 99-151, up to its first await.
createPeerConnection(viewerId) ==
  IF peerConnectionsRef[viewerId].st # "none"                \* lines 100-102
  THEN UNCHANGED <<peerConnectionsRef, strayPcs>>
  ELSE /\ peerConnectionsRef' =                               \* line 106
            [peerConnectionsRef EXCEPT ![viewerId] = NewPeerConnection]
       /\ UNCHANGED strayPcs

\* handleViewerSignal, lines 69-97, and the live_viewers INSERT handler,
\* lines 177-186 (type "insert", from = anon_id || user_id), for one
\* delivered message.
handleViewerSignal(m) ==
  LET pc == peerConnectionsRef[m.from]
      has == pc.st # "none"
  IN /\ IF m.type \in {"viewer-join", "insert"}
        THEN IF localStreamRef /\ stateRef.isStreaming /\ ~stateRef.externalStreamUrl
             THEN createPeerConnection(m.from)
             ELSE UNCHANGED <<peerConnectionsRef, strayPcs>>
        ELSE IF m.type = "answer" /\ has                      \* lines 84-88
        THEN /\ Len(pc.ops) < MaxOps
             /\ peerConnectionsRef' =
                  [peerConnectionsRef EXCEPT ![m.from].ops = Append(@, "srd")]
             /\ UNCHANGED strayPcs
        ELSE IF m.type = "ice-candidate" /\ has /\ pc.remote  \* lines 89-95
        THEN /\ peerConnectionsRef' =
                  [peerConnectionsRef EXCEPT ![m.from].applied = @ \cup {m.signal}]
             /\ UNCHANGED strayPcs
        ELSE UNCHANGED <<peerConnectionsRef, strayPcs>>
     /\ UNCHANGED <<state, stateRef, localStreamRef, bChannelRef, bSubs,
                    startPos, startExt, stopPos, nextStream, vInbox>>

\* The operation at the head of the chain of viewerId's pc settles.
\* createOffer, lines 139-140: setLocalDescription is called.
\* setLocalDescription, lines 140-147: the offer is sent.
\* setRemoteDescription(answer), line 88: applied if the pc awaits an answer
\* (have-local-offer), rejected otherwise; handleViewerSignal awaits it
\* outside any try, so the rejection is the handler's.
BroadcasterOpDone(viewerId) ==
  LET pc == peerConnectionsRef[viewerId]
      op == Head(pc.ops)
  IN /\ pc.st = "open" /\ pc.ops # <<>>
     /\ peerConnectionsRef' = [peerConnectionsRef EXCEPT ![viewerId] =
          CASE op = "offer" -> [pc EXCEPT !.ops = Append(Tail(@), "sld")]
            [] op = "sld" -> [pc EXCEPT !.ops = Tail(@), !.local = TRUE]
            [] op = "srd" -> IF AwaitsAnswer(pc)
                             THEN [pc EXCEPT !.ops = Tail(@), !.remote = TRUE]
                             ELSE [pc EXCEPT !.ops = Tail(@),    \* line 88: the
                                             !.unhandled = TRUE]] \* await throws
     /\ BroadcasterSend(IF op = "sld"
                        THEN {Msg("offer", stateRef.streamKey, viewerId, 0)}
                        ELSE {})
     /\ UNCHANGED <<state, stateRef, localStreamRef, strayPcs, bChannelRef,
                    bSubs, bInbox, startPos, startExt, stopPos, nextStream>>

\* pc.onicecandidate of viewerId's pc, lines 116-125.
BroadcasterIceCandidate(viewerId, c) ==
  /\ peerConnectionsRef[viewerId].st = "open"
  /\ peerConnectionsRef[viewerId].local
  /\ BroadcasterSend({Msg("ice-candidate", stateRef.streamKey, viewerId, c)})
  /\ UNCHANGED <<bstate, bSubs, bInbox>>

\* A handler that neither closes the RTCPeerConnection nor deletes its entry.
KeepFailedPeerLink(viewerId) == [peerConnectionsRef EXCEPT ![viewerId].conn = "failed"]

\* A handler that drops every entry of the map.
DropAllPeerLinks(viewerId) == [v \in Keys |-> NoBPc]

\* pc.close(); peerConnectionsRef.current.delete(viewerId), lines 131-132.
DropPeerLink(viewerId) == [peerConnectionsRef EXCEPT ![viewerId] = NoBPc]

\* pc.onconnectionstatechange of viewerId's pc, lines 127-134.
BroadcasterConnectionState(viewerId, cs) ==
  LET pc == peerConnectionsRef[viewerId]
  IN /\ pc.st = "open" /\ pc.local /\ pc.remote
     /\ cs \in NextConnectionState(pc.conn)
     /\ peerConnectionsRef' =
          IF cs \in {"failed", "disconnected"}
          THEN DropPeerLink(viewerId)
          ELSE [peerConnectionsRef EXCEPT ![viewerId].conn = cs]
     /\ UNCHANGED <<state, stateRef, localStreamRef, strayPcs, bChannelRef,
                    bSubs, bInbox, startPos, startExt, stopPos, nextStream,
                    vInbox>>

\* startStream(title, description, externalUrl), lines 221-236: up to the
\* await of getUserMedia, or of the insert for an external stream.
startStream(externalUrl) ==
  /\ startPos = "idle"
  /\ startPos' = IF externalUrl THEN "insert" ELSE "media"
  /\ startExt' = externalUrl
  /\ UNCHANGED <<state, stateRef, localStreamRef, peerConnectionsRef, strayPcs,
                 bChannelRef, bSubs, bInbox, stopPos, nextStream, vInbox>>

\* getUserMedia resolves, lines 230-252.
MediaGranted ==
  /\ startPos = "media"
  /\ localStreamRef' = TRUE
  /\ startPos' = "insert"
  /\ UNCHANGED <<state, stateRef, peerConnectionsRef, strayPcs, bChannelRef,
                 bSubs, bInbox, startExt, stopPos, nextStream, vInbox>>

\* getUserMedia rejects, or the insert returns an error, lines 254-257 and
\* 283-291: startStream throws.
StartStreamFails ==
  /\ startPos \in {"media", "insert"}
  /\ startPos' = "idle"
  /\ UNCHANGED <<state, stateRef, localStreamRef, peerConnectionsRef, strayPcs,
                 bChannelRef, bSubs, bInbox, startExt, stopPos, nextStream,
                 vInbox>>

\* setupSignaling(streamId), lines 153-202: the stream id is the argument,
\* the stream key is read from stateRef.current.
setupSignaling(id) ==
  IF stateRef.streamKey = 0                                  \* lines 159-162
  THEN UNCHANGED <<bChannelRef, bSubs>>
  ELSE /\ bChannelRef' = id
       /\ bSubs' = bSubs \cup {id}

\* The insert into live_streams returns the new row, lines 240-282: setState,
\* then setupSignaling in the same task. stateRef.current follows state only
\* when the effect of the next render has run (Render).
StreamInserted ==
  /\ startPos = "insert"
  /\ state' = [state EXCEPT !.isStreaming = TRUE,
                            !.streamId = nextStream,
                            !.streamKey = StreamKey(nextStream),
                            !.externalStreamUrl = startExt]
  /\ IF startExt THEN UNCHANGED <<bChannelRef, bSubs>>
                 ELSE setupSignaling(nextStream)
  /\ nextStream' = nextStream + 1
  /\ startPos' = "idle"
  /\ UNCHANGED <<stateRef, localStreamRef, peerConnectionsRef, strayPcs,
                 bInbox, startExt, stopPos, vInbox>>

\* An effect that makes and sends an offer for every RTCPeerConnection of the
\* map, whether or not it has senders or a local description.
LocalStreamEffectOffersAgain(pc) ==
  IF pc.st = "none"
  THEN pc
  ELSE [pc EXCEPT !.senders = TRUE, !.ops = Append(@, "offer")]

\* The effect of lines 458-491 on one RTCPeerConnection of the map.
LocalStreamEffect(pc) ==
  IF pc.st = "none" \/ pc.senders
  THEN pc                                          \* lines 480-488: same senders
  ELSE [pc EXCEPT !.senders = TRUE,                \* lines 463-479
                  !.ops = IF pc.local THEN @ ELSE Append(@, "offer")]

\* A render after setState: the effect of lines 54-56 brings stateRef.current
\* up to date, then the effect of lines 458-491 runs, its dependencies
\* having changed.
Render ==
  /\ stateRef # state
  /\ stateRef' = state
  /\ peerConnectionsRef' =
       IF localStreamRef /\ state.isStreaming /\ ~state.externalStreamUrl
       THEN [v \in Keys |-> LocalStreamEffect(peerConnectionsRef[v])]
       ELSE peerConnectionsRef
  /\ UNCHANGED <<state, localStreamRef, strayPcs, bChannelRef, bSubs, bInbox,
                 startPos, startExt, stopPos, nextStream, vInbox>>

\* A cleanupSignaling that removes the channels and leaves the map alone.
cleanupChannelsOnly ==
  /\ bChannelRef' = 0
  /\ bSubs' = bSubs \ {bChannelRef}
  /\ bInbox' = IF bSubs' = {} THEN {} ELSE bInbox
  /\ UNCHANGED peerConnectionsRef

\* cleanupSignaling, lines 204-219.
cleanupSignaling ==
  /\ bChannelRef' = 0
  /\ bSubs' = bSubs \ {bChannelRef}
  /\ bInbox' = IF bSubs' = {} THEN {} ELSE bInbox
  /\ peerConnectionsRef' = [v \in Keys |-> NoBPc]

\* The tail of stopStream, lines 319-334.
StopTail ==
  /\ state' = NoState
  /\ cleanupSignaling
  /\ stopPos' = "idle"

\* stopStream(), lines 294-317: up to the await of the update, which is
\* made only if the rendered state has a stream id.
stopStream ==
  /\ stopPos = "idle"
  /\ localStreamRef' = FALSE
  /\ IF stateRef.streamId # 0
     THEN /\ stopPos' = "update"
          /\ UNCHANGED <<state, peerConnectionsRef, bChannelRef, bSubs, bInbox>>
     ELSE StopTail
  /\ UNCHANGED <<stateRef, strayPcs, startPos, startExt, nextStream, vInbox>>

\* The update of live_streams returns, lines 309-334.
StreamUpdated ==
  /\ stopPos = "update"
  /\ StopTail
  /\ UNCHANGED <<stateRef, localStreamRef, strayPcs, startPos, startExt,
                 nextStream, vInbox>>

InitBroadcaster ==
  /\ state = NoState
  /\ stateRef = NoState
  /\ localStreamRef = FALSE
  /\ peerConnectionsRef = [v \in Keys |-> NoBPc]
  /\ strayPcs = [v \in Keys |-> 0]
  /\ bChannelRef = 0
  /\ bSubs = {}
  /\ bInbox = {}
  /\ startPos = "idle"
  /\ startExt = FALSE
  /\ stopPos = "idle"
  /\ nextStream = 1

\* ------------------ src/src/hooks/useLiveStream.tsx: the viewer-offer revision
\* Here the viewer makes the offer: connect() creates the RTCPeerConnection
\* and publishes an offer, the broadcaster answers. A viewer keeps its
\* identity (clientIdRef) over its calls of connect(); the calls are its
\* attempts 1, 2, ...
Attempts == 1..MaxAttempts

\* A candidate: the attempt whose ICE credentials (usernameFragment) it
\* carries, and its number.
OfferCand == Attempts \X Cand

NoCand == <<0, 0>>

\* An operation in the operations chain of an RTCPeerConnection: its name;
\* for addIceCandidate the candidate, whether the flush loop called it, and
\* whether the message was handled before the description it needs was set;
\* for setRemoteDescription(answer) the attempt answered, in c[1].
Op(name, c, flush, early) ==
  [op |-> name, c |-> c, flush |-> flush, early |-> early]

\* An RTCPeerConnection of either hook, with the flush loop of the handler
\* suspended on it: the array it iterates and its position in it.
NoOfferPc == [st |-> "none", local |-> FALSE, remote |-> FALSE, ops |-> <<>>,
              applied |-> {}, arr |-> <<>>, idx |-> 0]

\* addIceCandidate(c) on the RTCPeerConnection of attempt g resolves if the
\* remote description is set and c carries its credentials, and rejects
\* otherwise (InvalidStateError, OperationError).
Accepts(pc, g, c) == pc.remote /\ c[1] = g

\* The webrtc-signal handler of the broadcaster for an offer, lines 310-338,
\* up to its first await: the RTCPeerConnection is put in the map and
\* setRemoteDescription is called in the same task.
BroadcasterOffer(m) ==
  /\ offerPcs' = [offerPcs EXCEPT ![<<m.from, m.signal>>] =
       [NoOfferPc EXCEPT !.st = "open",
                         !.ops = <<Op("srd", NoCand, FALSE, FALSE)>>]]
  /\ peerConnectionsMap' = [peerConnectionsMap EXCEPT ![m.from] = m.signal]
  /\ UNCHANGED <<queuedIceMapRef, droppedIce>>

\* The webrtc-signal handler of the broadcaster for ice, lines 359-372.
BroadcasterIce(m) ==
  LET g == peerConnectionsMap[m.from]
      early == ~offerPcs[<<m.from, m.signal[1]>>].remote
  IN /\ IF g # 0
        THEN /\ Len(offerPcs[<<m.from, g>>].ops) < MaxOps + 1
             /\ offerPcs' = [offerPcs EXCEPT ![<<m.from, g>>].ops =
                               Append(@, Op("add", m.signal, FALSE, early))]
             /\ UNCHANGED queuedIceMapRef
        ELSE /\ queuedIceMapRef' =
                  [queuedIceMapRef EXCEPT ![m.from] = Append(@, m.signal)]
             /\ UNCHANGED offerPcs
     /\ UNCHANGED <<peerConnectionsMap, droppedIce>>

\* The webrtc-signal handler of the broadcaster, lines 301-378, for one
\* message; the topic delivers a message once. The handler is the one of the
\* render that set state.streamId, where state.isStreaming is true (lines
\* 62-65, 283-287, 309).
webrtcSignal(m) ==
  /\ m \notin handledOffers
  /\ handledOffers' = handledOffers \cup {m}
  /\ IF m.type = "offer" THEN BroadcasterOffer(m) ELSE BroadcasterIce(m)

\* The operation at the head of the chain of the RTCPeerConnection made for
\* attempt g of viewer v settles, and the handler awaiting it goes on to its
\* next await, lines 338-358.
BroadcasterOfferOpDone(v, g) ==
  LET pc == offerPcs[<<v, g>>]
      o == Head(pc.ops)
      rest == Tail(pc.ops)
      queued == queuedIceMapRef[v]                          \* line 343
      ok == Accepts(pc, g, o.c)
      more == o.flush /\ pc.idx < Len(pc.arr)
      next ==
        CASE o.op = "srd" ->
               [pc EXCEPT !.remote = TRUE,
                          !.ops = Append(rest, Op("answer", NoCand, FALSE, FALSE))]
          [] o.op = "answer" ->
               [pc EXCEPT !.ops = Append(rest, Op("sld", NoCand, FALSE, FALSE))]
          [] o.op = "sld" ->
               IF queued = <<>>
               THEN [pc EXCEPT !.local = TRUE, !.ops = rest]
               ELSE [pc EXCEPT !.local = TRUE, !.arr = queued, !.idx = 1,
                               !.ops = Append(rest, Op("add", queued[1], TRUE, TRUE))]
          [] o.op = "add" ->
               [pc EXCEPT !.applied = IF ok THEN @ \cup {o.c} ELSE @,
                          !.idx = IF more THEN @ + 1 ELSE @,
                          !.ops = IF more
                                  THEN Append(rest, Op("add", pc.arr[pc.idx + 1], TRUE, TRUE))
                                  ELSE rest]
      \* the flush loop is over: queuedIceMapRef.current.delete(from), line 351
      flushed == \/ o.op = "sld" /\ queued = <<>>
                 \/ o.op = "add" /\ o.flush /\ ~more
  IN /\ pc.st = "open" /\ pc.ops # <<>>
     /\ offerPcs' = [offerPcs EXCEPT ![<<v, g>>] = next]
     /\ queuedIceMapRef' = IF flushed
                           THEN [queuedIceMapRef EXCEPT ![v] = <<>>]
                           ELSE queuedIceMapRef
     /\ droppedIce' = IF o.op = "add" /\ ~ok /\ o.early     \* lines 347-349,
                      THEN droppedIce \cup {<<v, o.c>>}     \* 364-366
                      ELSE droppedIce
     /\ UNCHANGED <<peerConnectionsMap, handledOffers>>

\* --------------- src/src/hooks/useLiveStream.tsx: useStreamViewer
NoFlags == [isConnecting |-> FALSE, isConnected |-> FALSE]

\* connect(), lines 465-505, up to the await of createOffer. It has no
\* guard but the stream id; what pcRef.current held stays open.
connectWithOffer ==
  /\ pcRef < MaxAttempts
  /\ pcRef' = pcRef + 1
  /\ attemptPcs' = [attemptPcs EXCEPT ![pcRef + 1] =
       [NoOfferPc EXCEPT !.st = "open",
                         !.ops = <<Op("offer", NoCand, FALSE, FALSE)>>]]
  /\ connectFlags' = [connectFlags EXCEPT !.isConnecting = TRUE]
  /\ UNCHANGED <<queuedIceRef, handledSignals, droppedSignals>>

\* handleSignal, lines 414-463, for one message; m.signal is the attempt an
\* answer answers, or a candidate.
handleSignal(m) ==
  LET pc == attemptPcs[pcRef]
  IN /\ m \notin handledSignals
     /\ handledSignals' = handledSignals \cup {m}
     /\ IF m.to # NoTo /\ m.to # Self /\ m.to # streamId      \* line 420
        THEN UNCHANGED <<attemptPcs, queuedIceRef>>
        ELSE IF m.type = "answer"
        THEN /\ attemptPcs' =
                  IF pcRef # 0 /\ pc.local /\ ~pc.remote      \* lines 423-430
                  THEN [attemptPcs EXCEPT ![pcRef].ops =
                          Append(@, Op("srd", <<m.signal, 0>>, FALSE, FALSE))]
                  ELSE attemptPcs
             /\ UNCHANGED queuedIceRef
        ELSE IF pcRef = 0                                      \* lines 452-456
        THEN /\ queuedIceRef' = Append(queuedIceRef, m.signal)
             /\ UNCHANGED attemptPcs
        ELSE /\ Len(pc.ops) < MaxOps + 1                       \* lines 457-461
             /\ attemptPcs' = [attemptPcs EXCEPT ![pcRef].ops =
                  Append(@, Op("add", m.signal, FALSE, ~pc.remote))]
             /\ UNCHANGED queuedIceRef
     /\ UNCHANGED <<pcRef, connectFlags, droppedSignals>>

\* The operation at the head of the chain of the RTCPeerConnection of
\* attempt g settles, and what awaits it goes on: connect(), lines 505-520,
\* or handleSignal, lines 430-440. The flush loop takes the next queued
\* candidate and calls addIceCandidate on what pcRef.current holds then.
ViewerOfferOpDone(g) ==
  LET pc == attemptPcs[g]
      o == Head(pc.ops)
      rest == Tail(pc.ops)
      answered == o.op = "srd" /\ pc.local /\ ~pc.remote /\ o.c[1] = g
      ok == o.op = "add" /\ Accepts(pc, g, o.c)
      loops == answered \/ (o.op = "add" /\ o.flush)
      settled ==
        [attemptPcs EXCEPT ![g] =
           CASE o.op = "offer" ->
                  [pc EXCEPT !.ops = Append(rest, Op("sld", NoCand, FALSE, FALSE))]
             [] o.op = "sld" -> [pc EXCEPT !.local = TRUE, !.ops = rest]
             [] o.op = "srd" -> [pc EXCEPT !.remote = answered, !.ops = rest]
             [] o.op = "add" ->
                  [pc EXCEPT !.applied = IF ok THEN @ \cup {o.c} ELSE @,
                             !.ops = rest]]
  IN /\ pc.st = "open" /\ pc.ops # <<>>
     /\ IF loops /\ queuedIceRef # <<>>                        \* lines 432-439
        THEN /\ attemptPcs' = [settled EXCEPT ![pcRef].ops =
                  Append(@, Op("add", Head(queuedIceRef), TRUE, TRUE))]
             /\ queuedIceRef' = Tail(queuedIceRef)
        ELSE /\ attemptPcs' = settled
             /\ UNCHANGED queuedIceRef
     /\ connectFlags' =
          IF o.op = "sld" THEN [connectFlags EXCEPT !.isConnecting = FALSE]
          ELSE IF loops /\ queuedIceRef = <<>>                 \* line 440
          THEN [connectFlags EXCEPT !.isConnected = TRUE]
          ELSE connectFlags
     /\ droppedSignals' = IF o.op = "add" /\ ~ok /\ o.early    \* lines 436-438,
                          THEN droppedSignals \cup {o.c}       \* 459-461
                          ELSE droppedSignals
     /\ UNCHANGED <<pcRef, handledSignals>>

InitOffer ==
  /\ offerPcs = [k \in Ident \X Attempts |-> NoOfferPc]
  /\ peerConnectionsMap = [v \in Ident |-> 0]
  /\ queuedIceMapRef = [v \in Ident |-> <<>>]
  /\ handledOffers = {}
  /\ droppedIce = {}
  /\ pcRef = 0
  /\ attemptPcs = [g \in Attempts |-> NoOfferPc]
  /\ queuedIceRef = <<>>
  /\ connectFlags = NoFlags
  /\ handledSignals = {}
  /\ droppedSignals = {}

\* ------------------------------------------------------------ initial state
InitViewer ==
  /\ userId \in {0, User}
  /\ streamId \in StreamIds
  /\ isConnected = FALSE
  /\ isConnecting = FALSE
  /\ isConnectingRef = FALSE
  /\ remoteStream = FALSE
  /\ peerConnectionRef = NoPc
  /\ channelRef = NULL
  /\ leakedSubs = [s \in 1..MaxLeakedSubs |-> "none"]
  /\ pendingViewerCandidatesRef = <<>>
  /\ received = {}
  /\ retryIntervalRef = FALSE
  /\ connectionTimeoutRef = NULL
  /\ leakedTimeouts = 0
  /\ viewerRecordKeyRef = NULL
  /\ presenceInFlight = {}
  /\ presenceRow = "none"
  /\ offerTasks = <<>>
  /\ vInbox = {}

\* An anonymous viewer and a broadcaster, both freshly mounted.
Init ==
  /\ InitViewer /\ userId = 0 /\ streamId = MaxStreams
  /\ InitBroadcaster
  /\ bReceived = [v \in Ident |-> {}]
  /\ bLast = NoMsg
  /\ lost = 0
  /\ InitOffer

\* ------------------------------------------------------ groups of actions
ViewerTaskStep ==
  \/ SetRemoteDescriptionDone
  \/ CreateAnswerDone
  \/ SetLocalDescriptionDone
  \/ AddIceCandidateDone

ViewerTransport ==
  \E cs \in {"connected", "disconnected", "failed"} :
    ViewerConnectionState(cs)

ViewerTimers ==
  \/ \E s \in 0..MaxLeakedSubs : Subscribed(s)
  \/ RetryTick
  \/ ConnectionTimeout

ViewerPresence ==
  \E kind \in {"join", "leave"} : PresenceLands(kind)

\* The database has given out fewer than n ids.
RowsLeft(n) == nextStream <= n

BroadcasterCalls ==
  \/ \E externalUrl \in BOOLEAN : RowsLeft(MaxStreams) /\ startStream(externalUrl)
  \/ stopStream

BroadcasterSettles ==
  \/ MediaGranted
  \/ StartStreamFails
  \/ StreamInserted
  \/ StreamUpdated
  \/ Render
  \/ \E v \in Ident : BroadcasterOpDone(v)

BroadcasterTransport ==
  \E v \in Ident : \E cs \in {"connected", "disconnected", "failed"} :
    BroadcasterConnectionState(v, cs)

\* What the steps of one side leave alone.
ViewerOnly == UNCHANGED <<bstate, bhist, offerBroadcaster, offerViewer>>
BroadcasterOnly == UNCHANGED <<vstate, bhist, offerBroadcaster, offerViewer>>

\* ------------------------------------------------- the viewer on its own
\* What the topic may deliver to the viewer: offers and candidates from a
\* broadcaster, addressed to it, to another viewer, or to nobody.
ViewerDeliveries ==
  {Msg("offer", StreamKey(streamId), to, 0) : to \in Ident}
    \cup {Msg("ice-candidate", StreamKey(streamId), to, c) : to \in Ident, c \in Cand}

\* A message reaches a subscription of the viewer that has joined the topic.
ViewerReceives ==
  \E m \in ViewerDeliveries :
    /\ JoinedSubs # {}
    /\ handleBroadcasterSignal(m)
    /\ UNCHANGED vInbox

NextV ==
  \/ connect /\ ViewerOnly
  \/ disconnect /\ ViewerOnly
  \/ ViewerTimers /\ ViewerOnly
  \/ ViewerReceives /\ ViewerOnly
  \/ ViewerTaskStep /\ ViewerOnly
  \/ ViewerTransport /\ ViewerOnly

SpecV == Init /\ [][NextV]_vars

\* ------------------------------- the viewer and its live_viewers row
NextP ==
  \/ NextV
  \/ ViewerPresence /\ ViewerOnly

SpecP == Init /\ [][NextP]_vars

\* --------------------------------------------- the broadcaster on its own
\* What the topic and the database may deliver to the broadcaster: messages
\* of viewers and INSERT notifications of their live_viewers rows.
BroadcasterDeliveries ==
  {Msg(type, v, NoTo, 0) : type \in {"viewer-join", "insert"}, v \in Ident}
    \cup {Msg("answer", v, StreamKey(id), 0) : v \in Ident, id \in StreamIds}
    \cup {Msg("ice-candidate", v, StreamKey(id), c) :
            v \in Ident, id \in StreamIds, c \in Cand}

BroadcasterReceives ==
  \E m \in BroadcasterDeliveries :
    /\ bSubs # {}
    /\ handleViewerSignal(m)
    /\ UNCHANGED bInbox

NextB ==
  \/ BroadcasterCalls /\ BroadcasterOnly
  \/ BroadcasterSettles /\ BroadcasterOnly
  \/ BroadcasterReceives /\ BroadcasterOnly
  \/ BroadcasterTransport /\ BroadcasterOnly

SpecB == Init /\ [][NextB]_vars

\* ------------------- the broadcaster on its own, with what it has handled
\* bReceived and bLast are history variables; no action of the program reads
\* them. bLast is the message handled by the step just taken, NoMsg if the
\* step handled none. bReceived is, per identity, the candidates of the
\* ice-candidate messages handled since its RTCPeerConnection was put in the
\* map.
Recorded(m) ==
  /\ bLast' = m
  /\ UNCHANGED <<lost, offerBroadcaster, offerViewer>>
  /\ bReceived' = [v \in Ident |->
       IF peerConnectionsRef'[v].st = "none" THEN {}
       ELSE IF m.type = "ice-candidate" /\ m.from = v
               /\ peerConnectionsRef[v].st = "open"
       THEN bReceived[v] \cup {m.signal}
       ELSE bReceived[v]]

BroadcasterReceivesRecorded ==
  \E m \in BroadcasterDeliveries :
    /\ bSubs # {}
    /\ handleViewerSignal(m)
    /\ Recorded(m)
    /\ UNCHANGED <<bInbox, vstate>>

NextBH ==
  \/ BroadcasterCalls /\ Recorded(NoMsg) /\ UNCHANGED vstate
  \/ BroadcasterSettles /\ Recorded(NoMsg) /\ UNCHANGED vstate
  \/ BroadcasterReceivesRecorded
  \/ BroadcasterTransport /\ Recorded(NoMsg) /\ UNCHANGED vstate

SpecBH == Init /\ [][NextBH]_vars

\* ------------- the broadcaster on its own, with a viewer that only listens
\* A broadcaster that streams from its camera, viewers that announce
\* themselves, and the modelled viewer subscribed to the topic and handling
\* nothing: vInbox is all the broadcaster has published to its subscription.
ViewerListens ==
  \/ connect
  \/ Subscribed(0)

CameraCalls ==
  \/ RowsLeft(MaxStreams) /\ startStream(FALSE)
  \/ stopStream

CameraSettles ==
  \/ MediaGranted
  \/ StreamInserted
  \/ StreamUpdated
  \/ Render
  \/ \E v \in Ident : BroadcasterOpDone(v)

JoinDeliveries ==
  {Msg(type, v, NoTo, 0) : type \in {"viewer-join", "insert"}, v \in Ident}

BroadcasterReceivesJoin ==
  \E m \in JoinDeliveries :
    /\ bSubs # {}
    /\ handleViewerSignal(m)
    /\ UNCHANGED bInbox

BroadcasterCandidates ==
  \E v \in Ident : \E c \in Cand : BroadcasterIceCandidate(v, c)

NextBL ==
  \/ CameraCalls /\ BroadcasterOnly
  \/ CameraSettles /\ BroadcasterOnly
  \/ BroadcasterReceivesJoin /\ BroadcasterOnly
  \/ BroadcasterCandidates /\ BroadcasterOnly
  \/ ViewerListens /\ ViewerOnly

SpecBL == Init /\ [][NextBL]_vars

\* ------- a broadcaster that goes on starting streams, with a viewer that
\* only listens
\* startStream is called again and again without stopStream, with or
\* without an external URL, once more than the viewer's stream needs.
StartsAgain ==
  \E externalUrl \in BOOLEAN : RowsLeft(MaxStreams + 1) /\ startStream(externalUrl)

StartSettles ==
  \/ MediaGranted
  \/ StreamInserted
  \/ Render
  \/ \E v \in Ident : BroadcasterOpDone(v)

NextX ==
  \/ StartsAgain /\ BroadcasterOnly
  \/ StartSettles /\ BroadcasterOnly
  \/ BroadcasterReceivesJoin /\ BroadcasterOnly
  \/ ViewerListens /\ ViewerOnly

SpecX == Init /\ [][NextX]_vars

\* ------------------------------------------- broadcaster and viewer together
\* A broadcaster that starts streaming from its camera and a viewer that
\* connects to the stream: every message published on the topic is handled
\* by the subscribers it reached, and the 2 s and 45 s timers are slow
\* against message delivery and the operations of an RTCPeerConnection.
ViewerHandles ==
  \E d \in vInbox :
    /\ handleBroadcasterSignal(d[2])
    /\ vInbox' = vInbox \ {d}

BroadcasterHandles ==
  \E m \in bInbox :
    /\ handleViewerSignal(m)
    /\ bInbox' = bInbox \ {m}

BroadcasterOps == \E v \in Ident : BroadcasterOpDone(v)

Quiet ==
  /\ vInbox = {} /\ bInbox = {}
  /\ offerTasks = <<>>
  /\ \A v \in Ident : peerConnectionsRef[v].ops = <<>>
  /\ stateRef = state /\ startPos = "idle"

SlowTimers ==
  /\ Quiet
  /\ RetryTick \/ ConnectionTimeout

StartsFromCamera ==
  \/ RowsLeft(MaxStreams) /\ startStream(FALSE)
  \/ MediaGranted
  \/ StreamInserted
  \/ Render

ViewerGathers == \E c \in Cand : ViewerIceCandidate(c)

BroadcasterGathers ==
  \E v \in Ident : \E c \in Cand : BroadcasterIceCandidate(v, c)

NextSys ==
  \/ connect /\ ViewerOnly
  \/ (\E s \in 0..MaxLeakedSubs : Subscribed(s)) /\ ViewerOnly
  \/ SlowTimers /\ ViewerOnly
  \/ ViewerHandles /\ ViewerOnly
  \/ ViewerTaskStep /\ ViewerOnly
  \/ ViewerGathers /\ ViewerOnly
  \/ ViewerConnectionState("connected") /\ ViewerOnly
  \/ StartsFromCamera /\ BroadcasterOnly
  \/ BroadcasterHandles /\ BroadcasterOnly
  \/ BroadcasterOps /\ BroadcasterOnly
  \/ BroadcasterGathers /\ BroadcasterOnly
  \/ (\E v \in Ident : BroadcasterConnectionState(v, "connected")) /\ BroadcasterOnly

\* What is scheduled happens: deliveries, settling operations, renders, the
\* subscribe callback, the timers. connect() and startStream() are calls of
\* the user and need not happen.
FairSys ==
  /\ WF_vars((\E s \in 0..MaxLeakedSubs : Subscribed(s)) /\ ViewerOnly)
  /\ WF_vars(SlowTimers /\ ViewerOnly)
  /\ WF_vars(ViewerHandles /\ ViewerOnly)
  /\ WF_vars(ViewerTaskStep /\ ViewerOnly)
  /\ WF_vars(ViewerConnectionState("connected") /\ ViewerOnly)
  /\ WF_vars((MediaGranted \/ StreamInserted \/ Render) /\ BroadcasterOnly)
  /\ WF_vars(BroadcasterHandles /\ BroadcasterOnly)
  /\ WF_vars(BroadcasterOps /\ BroadcasterOnly)
  /\ WF_vars((\E v \in Ident : BroadcasterConnectionState(v, "connected"))
               /\ BroadcasterOnly)

\* The viewer watches any of the streams the broadcaster will create.
InitSys ==
  /\ InitViewer /\ userId = 0
  /\ InitBroadcaster
  /\ bReceived = [v \in Ident |-> {}]
  /\ bLast = NoMsg
  /\ lost = 0
  /\ InitOffer

SpecSys == InitSys /\ [][NextSys]_vars /\ FairSys

\* ----- a streaming broadcaster whose transport to one viewer fails, with
\* that viewer only listening
\* The identity Self announces itself, by viewer-join and by the INSERT of
\* its live_viewers row, and answers; its transport connects and fails. The
\* modelled viewer is subscribed to the topic and handles nothing. bLast is
\* the message the step just taken has handled.
NegotiationDeliveries ==
  {Msg(type, Self, NoTo, 0) : type \in {"viewer-join", "insert"}}
    \cup {Msg("answer", Self, StreamKey(streamId), 0)}

BroadcasterReceivesNegotiation ==
  \E m \in NegotiationDeliveries :
    /\ bSubs # {}
    /\ handleViewerSignal(m)
    /\ Recorded(m)
    /\ UNCHANGED <<bInbox, vstate>>

NextF ==
  \/ StartsFromCamera /\ Recorded(NoMsg) /\ UNCHANGED vstate
  \/ BroadcasterOps /\ Recorded(NoMsg) /\ UNCHANGED vstate
  \/ BroadcasterReceivesNegotiation
  \/ BroadcasterTransport /\ Recorded(NoMsg) /\ UNCHANGED vstate
  \/ BroadcasterGathers /\ Recorded(NoMsg) /\ UNCHANGED vstate
  \/ ViewerListens /\ UNCHANGED bstate /\ Recorded(NoMsg)

SpecF == Init /\ [][NextF]_vars

\* ------------------------------- broadcaster and viewer on a lossy topic
\* A broadcast on the topic is not acknowledged: a message published may
\* reach no subscriber. Here the topic loses at most MaxLost messages.
Lose ==
  /\ lost < MaxLost
  /\ lost' = lost + 1
  /\ \/ \E d \in vInbox : vInbox' = vInbox \ {d} /\ UNCHANGED bInbox
     \/ \E m \in bInbox : bInbox' = bInbox \ {m} /\ UNCHANGED vInbox
  /\ UNCHANGED <<vstate, bstate, bSubs, bReceived, bLast, offerBroadcaster,
                 offerViewer>>

NextLossy ==
  \/ NextSys
  \/ Lose

SpecLossy == InitSys /\ [][NextLossy]_vars /\ FairSys

\* ------------- a broadcaster with two viewers, one of them the modelled one
\* The broadcaster streams from its camera; the identities Self and Other
\* announce themselves and the broadcaster makes a PeerLink for each. The
\* modelled viewer, whose identity is Self, connects and handles whatever
\* the topic delivers to its subscription, the messages published for
\* Other's PeerLink included. The broadcaster starts two streams; the
\* viewer watches the second, the first one to have signaling (setupSignaling
\* returns early while stateRef.current has no stream key, lines 159-162).
InitT ==
  /\ InitViewer /\ userId = 0 /\ streamId = 2
  /\ InitBroadcaster
  /\ bReceived = [v \in Ident |-> {}]
  /\ bLast = NoMsg
  /\ lost = 0
  /\ InitOffer

StartsTwice ==
  \/ RowsLeft(2) /\ startStream(FALSE)
  \/ MediaGranted
  \/ StreamInserted
  \/ Render

\* The viewer connects; each of its subscriptions joins the topic once.
ViewerJoinsOnce ==
  \/ connect
  \/ channelRef = "joining" /\ Subscribed(0)

\* The RTCPeerConnection of each PeerLink gathers one candidate.
BroadcasterGathersOne ==
  \E v \in Ident : BroadcasterIceCandidate(v, Min(Cand))

NextT ==
  \/ StartsTwice /\ BroadcasterOnly
  \/ BroadcasterReceivesJoin /\ BroadcasterOnly
  \/ BroadcasterOps /\ BroadcasterOnly
  \/ BroadcasterGathersOne /\ BroadcasterOnly
  \/ ViewerJoinsOnce /\ ViewerOnly
  \/ ViewerHandles /\ ViewerOnly
  \/ ViewerTaskStep /\ ViewerOnly

SpecT == InitT /\ [][NextT]_vars

\* ------------- a broadcaster and one viewer, anonymous or signed in
\* The broadcaster streams from its camera and the viewer connects once:
\* it announces itself by viewer-join and by the INSERT of its live_viewers
\* row, and the broadcaster handles both.
InitA ==
  /\ InitViewer /\ streamId = 2
  /\ InitBroadcaster
  /\ bReceived = [v \in Ident |-> {}]
  /\ bLast = NoMsg
  /\ lost = 0
  /\ InitOffer

NextA ==
  \/ StartsTwice /\ BroadcasterOnly
  \/ BroadcasterHandles /\ BroadcasterOnly
  \/ (\E k \in Keys : BroadcasterOpDone(k)) /\ BroadcasterOnly
  \/ ViewerJoinsOnce /\ ViewerOnly
  \/ PresenceLands("join") /\ ViewerOnly
  \/ ViewerHandles /\ ViewerOnly
  \/ ViewerTaskStep /\ ViewerOnly

SpecA == InitA /\ [][NextA]_vars

\* ---------------- the broadcaster of the viewer-offer revision on its own
\* What the topic may deliver to the broadcaster: the offers of the attempts
\* of the viewer Self and the candidates of their RTCPeerConnections, and
\* those of the one attempt of the viewer Other, in any order.
OfferDeliveries ==
  {Msg("offer", Self, streamId, g) : g \in Attempts}
    \cup {Msg("ice", Self, streamId, c) : c \in OfferCand}
    \cup {Msg("offer", Other, streamId, 1)}
    \cup {Msg("ice", Other, streamId, <<1, c>>) : c \in Cand}

OldHooks == UNCHANGED <<vvars, bstate, bSubs, bInbox, bhist>>

NextOB ==
  \/ (\E m \in OfferDeliveries : webrtcSignal(m))
       /\ OldHooks /\ UNCHANGED offerViewer
  \/ (\E v \in Ident : \E g \in Attempts : BroadcasterOfferOpDone(v, g))
       /\ OldHooks /\ UNCHANGED offerViewer

SpecOB == Init /\ [][NextOB]_vars

\* -------------------- the viewer of the viewer-offer revision on its own
\* What the topic may deliver to the viewer once it has published the offer
\* of attempt g: the answer to it, and the candidates of the
\* RTCPeerConnection the broadcaster made for it, addressed to the viewer or,
\* for another viewer's, to that one.
AnswerDeliveries ==
  {Msg("answer", streamId, Self, g) : g \in Attempts}
    \cup {Msg("ice", streamId, to, c) : to \in Ident, c \in OfferCand}

ViewerOfferReceives ==
  \E m \in AnswerDeliveries :
    /\ attemptPcs[IF m.type = "answer" THEN m.signal ELSE m.signal[1]].local
    /\ handleSignal(m)

NextOV ==
  \/ connectWithOffer /\ OldHooks /\ UNCHANGED offerBroadcaster
  \/ ViewerOfferReceives /\ OldHooks /\ UNCHANGED offerBroadcaster
  \/ (\E g \in Attempts : ViewerOfferOpDone(g))
       /\ OldHooks /\ UNCHANGED offerBroadcaster

SpecOV == Init /\ [][NextOV]_vars

\* ------------------------- the viewer whose caller never calls disconnect()
\* The subscribe callback of the subscription channelRef holds, with a status
\* other than SUBSCRIBED (CHANNEL_ERROR, TIMED_OUT), lines 641-643 and 693:
\* the callback does nothing. The client keeps the subscription and tries to
\* join again, so SUBSCRIBED may still be reported later, or never.
SubscribeFails ==
  /\ channelRef = "joining"
  /\ channelRef' = "errored"
  /\ UNCHANGED <<userId, streamId, received, isConnected, isConnecting,
                 isConnectingRef, remoteStream, peerConnectionRef, leakedSubs,
                 pendingViewerCandidatesRef, retryIntervalRef,
                 connectionTimeoutRef, leakedTimeouts, viewerRecordKeyRef,
                 presenceInFlight, presenceRow, offerTasks, vInbox, bSubs,
                 bInbox>>

\* The viewer of SpecV without calls of disconnect(), and with subscriptions
\* that may fail to join.
NextW ==
  \/ connect /\ ViewerOnly
  \/ SubscribeFails /\ ViewerOnly
  \/ ViewerTimers /\ ViewerOnly
  \/ ViewerReceives /\ ViewerOnly
  \/ ViewerTaskStep /\ ViewerOnly
  \/ ViewerTransport /\ ViewerOnly

\* What is scheduled happens: a timeout that is armed fires, an operation of
\* the RTCPeerConnection settles. Nothing makes the topic report SUBSCRIBED
\* or deliver a message, and connect() is a call of the user.
FairW ==
  /\ WF_vars(ConnectionTimeout /\ ViewerOnly)
  /\ WF_vars(ViewerTaskStep /\ ViewerOnly)

SpecW == Init /\ [][NextW]_vars /\ FairW

\* --------------------------------------------------- properties, viewer
ViewerPcOpen == peerConnectionRef.st = "open"

\* Every candidate handled is applied to the open transport or is in the
\* pending array.
CandidatesKept ==
  received \subseteq
    (Range(pendingViewerCandidatesRef)
       \cup (IF ViewerPcOpen THEN peerConnectionRef.applied ELSE {}))

\* Once the offer is processed (remote and local description set, no handler
\* suspended) nothing is left pending.
BufferDrained ==
  (ViewerPcOpen /\ peerConnectionRef.remote /\ peerConnectionRef.local
     /\ offerTasks = <<>>)
    => pendingViewerCandidatesRef = <<>>

\* C2: on the viewer, an offer and an ice-candidate processed in either
\* order end with the remote description set, the candidate applied and the
\* pending array empty: every handled candidate is applied or buffered, also
\* one handled while the offer handler is suspended, and nothing stays
\* buffered once the offer is processed.
C2_BufferingCommutes ==
  CandidatesKept /\ BufferDrained

\* A candidate buffered before the remote description was set is being
\* applied by the drain loop of the offer handler.
C2_Witness ==
  /\ ViewerPcOpen /\ peerConnectionRef.remote /\ peerConnectionRef.local
  /\ offerTasks # <<>> /\ Head(offerTasks).pos = "drain"
  /\ pendingViewerCandidatesRef # <<>>
  /\ received # {}

NoTimerArmed ==
  /\ ~retryIntervalRef
  /\ connectionTimeoutRef = NULL
  /\ leakedTimeouts = 0

\* C3: when the abandonment timeout fires, the viewer is neither connecting
\* nor connected and its transport is closed, and from then on no retry
\* interval and no abandonment timeout is armed, so that the failure
\* transition happens once and no further viewer-join is published.
C3_AbandonedOnce ==
  [][ConnectionTimeout =>
       /\ ~isConnecting' /\ ~isConnectingRef' /\ ~isConnected'
       /\ ~ViewerPcOpen'
       /\ NoTimerArmed']_vars

\* The state disconnect() leaves the viewer in.
Disconnected ==
  /\ connectionTimeoutRef = NULL
  /\ ~retryIntervalRef
  /\ channelRef = NULL
  /\ ~ViewerPcOpen
  /\ offerTasks = <<>>
  /\ ~remoteStream /\ ~isConnected /\ ~isConnecting /\ ~isConnectingRef
  /\ viewerRecordKeyRef = NULL

\* C4: disconnect() is idempotent: it leaves the viewer disconnected, and
\* called on a disconnected viewer (after a first disconnect(), or one that
\* never connected) it changes nothing and issues no presence-leave write.
C4_DisconnectIdempotent ==
  [][disconnect => (Disconnected' /\ (Disconnected => UNCHANGED vars))]_vars

\* disconnect() has run on a viewer that had subscribed: its leave write is
\* in flight or has landed, and the viewer is disconnected.
C4_Witness ==
  /\ Disconnected
  /\ "leave" \in presenceInFlight \/ presenceRow = "left"

\* C8: connect() called while the viewer is connecting or connected is a
\* no-op: no new subscription, no viewer-join, no timer, no presence write.
C8_ConnectNoOp ==
  [][((isConnecting \/ isConnected) /\ connect) => UNCHANGED vars]_vars

\* C10: whenever the viewer becomes connected, by a remote track or by the
\* connection state reporting "connected", no abandonment timeout stays
\* armed; and the abandonment timeout never fires on a connected viewer.
C10_TimerCancelledOnConnected ==
  [][/\ (~isConnected /\ isConnected') =>
          (connectionTimeoutRef' = NULL /\ leakedTimeouts' = 0)
     /\ ConnectionTimeout => ~isConnected]_vars

\* C11: after disconnect(), from whatever state, no retry interval and no
\* abandonment timeout is armed, the viewer holds no topic subscription, its
\* transport is closed and unreferenced, it shows no remote media, it is
\* neither connecting nor connected, and the leave write for the presence
\* key recorded at connect has been issued.
C11_DisconnectReleasesAll ==
  [][disconnect =>
       /\ Disconnected'
       /\ NoTimerArmed'
       /\ JoinedSubs' = {} /\ \A s \in DOMAIN leakedSubs : leakedSubs'[s] = "none"
       /\ viewerRecordKeyRef # NULL => "leave" \in presenceInFlight']_vars

\* C13: the viewer has at most one live retry interval and at most one live
\* abandonment timeout, each the one its handle refers to, and none is
\* scheduled once the viewer is connected or has no subscription.
C13_TimersReferenced ==
  /\ leakedTimeouts = 0
  /\ (isConnected \/ (channelRef = NULL /\ JoinedSubs = {})) => NoTimerArmed

\* C15: a connect() that passes its guard on a viewer that is not connected,
\* after a timeout or a transport failure as well as the first time, starts
\* a fresh attempt: the new subscription is the viewer's only one, no timer
\* of an earlier attempt is armed, and no failed or disconnected transport
\* is left for the next offer to be applied to.
FreshAttempt ==
  /\ channelRef = "joining" /\ isConnectingRef
  /\ \A s \in DOMAIN leakedSubs : leakedSubs[s] = "none"
  /\ NoTimerArmed
  /\ peerConnectionRef.conn \notin {"failed", "disconnected"}

C15_ReconnectIsFresh ==
  [][(connect /\ ~isConnectingRef /\ ~isConnected) => FreshAttempt']_vars

\* C18: once the viewer has disconnected and every live_viewers write it
\* issued has landed, whatever the order, its row carries a leave timestamp.
C18_LeaveRecorded ==
  (Disconnected /\ presenceInFlight = {} /\ presenceRow # "none")
    => presenceRow = "left"

\* C20: when the viewer's transport reports disconnected or failed, the
\* viewer is then neither connected nor connecting and shows no remote
\* media, and its subscriptions are as they were.
C20_TransportFailureKeepsSubscription ==
  [][(\E cs \in {"disconnected", "failed"} : ViewerConnectionState(cs)) =>
       /\ ~isConnected' /\ ~isConnecting' /\ ~isConnectingRef'
       /\ ~remoteStream'
       /\ channelRef' = channelRef /\ leakedSubs' = leakedSubs]_vars

\* The transport of a viewer that showed remote media has just reported
\* disconnected: the viewer is not connected and still subscribed.
C20_Witness ==
  /\ ViewerPcOpen /\ peerConnectionRef.conn = "disconnected"
  /\ ~isConnected /\ ~isConnecting /\ ~remoteStream
  /\ channelRef = "joined"

\* The viewer has handled an offer addressed to it since its last connect():
\* the RTCPeerConnection the offer made is open and its remote description
\* is still to be set, and isConnectingRef, set by connect(), has not been
\* reset since.
OfferInHand ==
  /\ isConnectingRef
  /\ ViewerPcOpen /\ ~peerConnectionRef.remote

\* C21: once the viewer has received an offer, it publishes no viewer-join
\* until the next connect(): no subscribe callback sends one and the retry
\* interval stays cleared.
C21_NoJoinAfterOffer ==
  [][OfferInHand =>
       /\ ~(\E s \in 0..MaxLeakedSubs : Subscribed(s))
       /\ ~retryIntervalRef']_vars

\* ----------------------------------------------- properties, broadcaster
\* The open RTCPeerConnections the broadcaster has made for identity v.
PeerLinks(v) ==
  (IF peerConnectionsRef[v].st = "open" THEN 1 ELSE 0) + strayPcs[v]

\* C1: whatever viewer-join messages and INSERT notifications of one
\* identity are handled, the broadcaster has at most one RTCPeerConnection
\* for it, also when a second join is handled while createPeerConnection is
\* suspended in createOffer.
C1_OnePeerLinkPerIdentity ==
  \A v \in Ident : PeerLinks(v) <= 1

\* createPeerConnection(Self) is suspended in createOffer while the
\* broadcaster listens, so that further joins of Self are handled.
C1_Witness ==
  /\ bSubs # {}
  /\ peerConnectionsRef[Self].st = "open"
  /\ peerConnectionsRef[Self].ops = <<"offer">>
  /\ PeerLinks(Self) = 1

\* C6: a viewer-join handled while the broadcaster is streaming from its
\* camera but holds no local stream puts an RTCPeerConnection for the sender
\* in the map, without an offer being created for it.
C6_LinkCreatedWithoutMedia ==
  [][\A v \in Ident :
       (/\ bLast'.type = "viewer-join" /\ bLast'.from = v
        /\ stateRef.isStreaming /\ ~stateRef.externalStreamUrl
        /\ ~localStreamRef)
       => (/\ peerConnectionsRef'[v].st = "open"
           /\ "offer" \notin Range(peerConnectionsRef'[v].ops))]_vars

\* C7: a connection state of failed or disconnected on the RTCPeerConnection
\* of one identity removes that identity's entry from the map and leaves
\* every other entry as it was.
C7_FailureDropsOnlyThatLink ==
  [][\A v \in Ident : \A cs \in {"failed", "disconnected"} :
       BroadcasterConnectionState(v, cs) =>
         /\ peerConnectionsRef'[v].st = "none"
         /\ \A w \in Ident \ {v} : peerConnectionsRef'[w] = peerConnectionsRef[w]]_vars

\* The entry of Self is gone while Other's is negotiated and connected.
C7_Witness ==
  /\ peerConnectionsRef[Self].st = "none"
  /\ peerConnectionsRef[Other].st = "open"
  /\ peerConnectionsRef[Other].conn = "connected"

\* C9: an ice-candidate handled for an identity that has an
\* RTCPeerConnection is not lost: once the answer is set as remote
\* description and no answer is being applied, every candidate handled for
\* that RTCPeerConnection has been applied to it.
C9_CandidateNotLost ==
  \A v \in Ident :
    (/\ peerConnectionsRef[v].st = "open"
     /\ peerConnectionsRef[v].remote
     /\ "srd" \notin Range(peerConnectionsRef[v].ops))
    => bReceived[v] \subseteq peerConnectionsRef[v].applied

\* ---------------------------------------------- properties, both sides
\* startStream without external URL has completed and been rendered, and the
\* viewer has called connect() on that stream, for the first time.
StartedThenConnect ==
  /\ state.isStreaming /\ ~state.externalStreamUrl
  /\ state.streamId = streamId
  /\ stateRef = state /\ startPos = "idle"
  /\ isConnectingRef /\ channelRef = "joining"
  /\ \A s \in DOMAIN leakedSubs : leakedSubs[s] = "none"
  /\ NoTimerArmed

\* The broadcaster has started another stream.
StartedAnother == state.streamId # streamId

ConnectedToViewer ==
  /\ isConnected
  /\ \A v \in Ident : (peerConnectionsRef[v].st = "open") <=> (v = Self)

\* C5: once startStream without external URL has completed and the viewer
\* has then called connect() on that stream, with every message delivered
\* the viewer becomes connected and the broadcaster's map holds exactly one
\* RTCPeerConnection, that of the viewer's identity.
C5_StartConnectReachesConnected ==
  StartedThenConnect ~> (ConnectedToViewer \/ StartedAnother)

\* C12: when stopStream completes the map is empty and no RTCPeerConnection
\* of the broadcaster is open, the broadcaster holds no channel and listens
\* on no topic of the stream it stopped; and from then until a stream is
\* started again it publishes nothing, whatever was in flight.
StopCompleted ==
  /\ \A v \in Ident : PeerLinks(v) = 0 /\ peerConnectionsRef[v] = NoBPc
  /\ bChannelRef = 0

C12_StopReleasesAll ==
  [][/\ StopTail => (StopCompleted' /\ bSubs' \cap {bChannelRef, state.streamId} = {})
     /\ (~state.isStreaming /\ ~state'.isStreaming) => vInbox' = vInbox]_vars

\* stopStream has completed on a broadcaster that had published an offer.
C12_Witness ==
  /\ StopCompleted /\ state = NoState /\ stopPos = "idle"
  /\ \E d \in vInbox : d[2].type = "offer"

\* C14: an answer applied to an RTCPeerConnection that is not awaiting one
\* is discarded: the negotiation state of that RTCPeerConnection and the map
\* are as before, and no rejection leaves the handler.
LateAnswerSettles(v) ==
  /\ BroadcasterOpDone(v)
  /\ Head(peerConnectionsRef[v].ops) = "srd"
  /\ ~AwaitsAnswer(peerConnectionsRef[v])

C14_LateAnswerDiscarded ==
  [][\A v \in Ident : LateAnswerSettles(v) =>
       /\ [peerConnectionsRef' EXCEPT ![v].unhandled = FALSE] =
            [peerConnectionsRef EXCEPT ![v].ops = Tail(@), ![v].unhandled = FALSE]
       /\ ~peerConnectionsRef'[v].unhandled]_vars

\* The broadcaster streams from its camera and listens on the topic of the
\* stream, and the viewer has called connect() on that stream, for the
\* first time.
ListeningThenConnect ==
  /\ StartedThenConnect
  /\ localStreamRef /\ bChannelRef = streamId

\* A delivered candidate waits for room in the pending array: MaxPending
\* keeps the viewer from handling it.
PendingAtBound ==
  /\ vInbox # {}
  /\ Len(pendingViewerCandidatesRef) = MaxPending

\* C16: with a broadcaster streaming from its camera, a viewer that has
\* called connect() becomes connected although the topic loses one message
\* of the negotiation, every later message being delivered (or else the
\* broadcaster starts another stream, or the run ends at the bound of the
\* pending array).
C16_LossRecovered ==
  ListeningThenConnect ~> (ConnectedToViewer \/ StartedAnother \/ PendingAtBound)

\* C17: while the state of the session has its external URL set, no step
\* of the broadcaster puts an RTCPeerConnection in the map and none
\* publishes an offer.
C17_ExternalNeverLinks ==
  [][(state.externalStreamUrl /\ state'.externalStreamUrl) =>
       /\ \A v \in Ident : peerConnectionsRef[v].st = "none"
                              => peerConnectionsRef'[v].st = "none"
       /\ \A d \in vInbox' \ vInbox : d[2].type # "offer"]_vars

\* Self has had an RTCPeerConnection, whose offer was published, and has
\* none now: in SpecF only a failed or disconnected transport removes one.
LinkRemoved ==
  /\ peerConnectionsRef[Self].st = "none"
  /\ \E d \in vInbox : d[2].type = "offer" /\ d[2].to = Self

\* What a step of SpecF does about the RTCPeerConnection of Self: a failed or
\* disconnected transport is closed and its entry removed; while Self has no
\* entry nothing addressed to Self is published; after a removal an entry is
\* made only by a step that handles an announcement of Self of one of the
\* given types, and it is made with the offer under way; the step that sets
\* the local description publishes the offer on the topic.
LinkFails ==
  \E cs \in {"failed", "disconnected"} : BroadcasterConnectionState(Self, cs)

RestartedOnlyBy(types) ==
  LET pc == peerConnectionsRef[Self]
  IN /\ LinkFails => peerConnectionsRef'[Self] = NoBPc
     /\ pc.st = "none" => \A d \in vInbox' \ vInbox : d[2].to # Self
     /\ (LinkRemoved /\ peerConnectionsRef'[Self].st = "open") =>
          /\ bLast'.from = Self /\ bLast'.type \in types
          /\ peerConnectionsRef'[Self].ops = <<"offer">>
     /\ (pc.st = "open" /\ ~pc.local /\ peerConnectionsRef'[Self].local
           /\ bChannelRef = streamId /\ JoinedSubs # {}) =>
          \E d \in vInbox' : d[2].type = "offer" /\ d[2].to = Self

OffersOf(pc) ==
  (IF pc.local THEN 1 ELSE 0)
    + Cardinality({i \in DOMAIN pc.ops : pc.ops[i] \in {"offer", "sld"}})

\* C22: for each RTCPeerConnection of the map the broadcaster makes at most
\* one offer during its lifetime, whatever viewer-joins arrive for its
\* identity and however createPeerConnection and the local-stream effect
\* interleave.
C22_OneOfferPerLink ==
  \A v \in Ident : OffersOf(peerConnectionsRef[v]) <= 1

\* The effect has run for the stream of the session, and the
\* RTCPeerConnection of Self has published its offer.
C22_Witness ==
  /\ peerConnectionsRef[Self].st = "open" /\ peerConnectionsRef[Self].local
  /\ localStreamRef /\ state.isStreaming /\ ~state.externalStreamUrl
  /\ stateRef = state /\ state.streamId = MaxStreams

\* The messages a step publishes to the viewer's subscriptions.
Published == {d[2] : d \in vInbox'} \ {d[2] : d \in vInbox}

\* The step is the handling of the delivered message d by the viewer.
Handles(d) == d \in vInbox /\ vInbox' = vInbox \ {d}

\* C23: an offer is published by the step that sets the local description
\* of one RTCPeerConnection of the map and carries the key of that one as
\* recipient; an ice-candidate carries the key of an RTCPeerConnection of
\* the map that has its local description; and the viewer's handling of a
\* message whose recipient is another identity changes nothing of the
\* viewer.
C23_RecipientIsolation ==
  [][/\ \A m \in Published :
          /\ m.to \in Ident
          /\ peerConnectionsRef'[m.to].st = "open"
          /\ peerConnectionsRef'[m.to].local
          /\ m.type = "offer" =>
               /\ ~peerConnectionsRef[m.to].local
               /\ \A v \in Ident \ {m.to} :
                    peerConnectionsRef'[v] = peerConnectionsRef[v]
     /\ \A d \in vInbox :
          Handles(d) /\ d[2].to \notin {NoTo, Self} => UNCHANGED vstate]_vars

\* The broadcaster has published the offers of both PeerLinks, the viewer
\* has applied its own and still has Other's to handle.
C23_Witness ==
  /\ peerConnectionsRef[Self].local /\ peerConnectionsRef[Other].local
  /\ ViewerPcOpen /\ peerConnectionRef.remote
  /\ \E d \in vInbox : d[2].type = "offer" /\ d[2].to = Other

\* The offer handler at the head of the chain awaits setRemoteDescription.
OfferBeingApplied == offerTasks # <<>> /\ Head(offerTasks).pos = "srd"

\* C24: a viewer that is connecting and not connected comes to report
\* connected only by the step that applies an offer it has received as
\* remote description; there is no step from announcing straight to
\* connected.
C24_ConnectedOnlyByOffer ==
  [][(isConnectingRef /\ ~isConnected /\ isConnected') =>
       (OfferBeingApplied /\ peerConnectionRef'.remote)]_vars

\* Every suspended offer handler is past the awaits that come before its
\* position: one that has got beyond setRemoteDescription has a remote
\* description on the RTCPeerConnection, one in the drain loop a local one.
OfferStepsInOrder ==
  \A t \in DOMAIN offerTasks :
    /\ offerTasks[t].pos # "srd" => peerConnectionRef.remote
    /\ offerTasks[t].pos = "drain" => peerConnectionRef.local

\* The step in which setLocalDescription(answer) resolves: signalingState
\* goes from "have-remote-offer" to "stable".
AnswerSet ==
  /\ peerConnectionRef.offer
  /\ peerConnectionRef'.st = "open" /\ ~peerConnectionRef'.offer

\* C25: the handler of an offer sets the remote description before it makes
\* the answer and drains the pending candidates only after the answer is the
\* local description, and when the answer has been set as local description
\* it is published: the viewer has a channel to send it on.
C25_OfferAnsweredInOrder ==
  [][/\ OfferStepsInOrder'
     /\ AnswerSet => channelRef # NULL]_vars

\* C26: no candidate of a viewer that the broadcaster handled before it had
\* set that attempt's offer as remote description is dropped: none has had
\* its addIceCandidate rejected.
C26_EarlyIceKeptByBroadcaster == droppedIce = {}

\* C27: no candidate that the viewer handled after connect() had made its
\* RTCPeerConnection and before the answer was its remote description is
\* dropped: none has had its addIceCandidate rejected.
C27_EarlyIceKeptByViewer == droppedSignals = {}

\* The stream keys the broadcaster has generated so far.
StreamKeys == {StreamKey(id) : id \in 1..(nextStream - 1)}

\* The fields of the messages delivered and not yet handled, on either side
\* of the topic.
PublishedFields ==
  UNION {{d[2].from, d[2].to, d[2].signal} : d \in vInbox}
    \cup UNION {{m.from, m.to, m.signal} : m \in bInbox}

\* C28: no field (from, to, signal) of a message published on the topic, by
\* the broadcaster or by the viewer, is the stream key of a stream.
C28_StreamKeyNotPublished == PublishedFields \cap StreamKeys = {}

\* The keys under which the map holds an RTCPeerConnection.
LinkedKeys == {k \in Keys : peerConnectionsRef[k].st # "none"}

\* C29: with one viewer, anonymous or signed in, the map holds at most one
\* RTCPeerConnection, and it is keyed by the identity the viewer accepts
\* messages for (viewerId.current).
C29_OnePeerLinkPerViewer ==
  /\ Cardinality(LinkedKeys) <= 1
  /\ LinkedKeys \subseteq {Self}

\* The same for an anonymous viewer only.
C29_AnonymousOnly == userId = 0 => C29_OnePeerLinkPerViewer

\* C30: the viewer's connecting flag and connected flag are never both
\* true.
C30_FlagsExclusive == ~(isConnecting /\ isConnected)

\* ------------------------------------ properties, the viewer's exit paths
\* C31: the viewer's pending-candidate array is empty after disconnect() and
\* after the abandonment timeout has fired, so that no candidate buffered
\* during one attempt is left for the drain loop of a later attempt.
C31_BufferEmptyOnExit ==
  [][(disconnect \/ ConnectionTimeout) =>
       pendingViewerCandidatesRef' = <<>>]_vars

\* The subscriptions the viewer has made and not removed: the one its channel
\* handle refers to, and those no handle refers to.
LiveSubs ==
  (IF channelRef # NULL THEN {0} ELSE {})
    \cup {s \in DOMAIN leakedSubs : leakedSubs[s] # "none"}

\* C32: the viewer holds at most one live subscription to the topic: every
\* subscription it has made is the one channelRef refers to or has been
\* removed, whatever the sequence of connect(), timeout, transport failure
\* and disconnect().
C32_OneLiveSubscription == LiveSubs \subseteq {0}


\* The abandonment timeout has fired since the last connect(), and
\* disconnect() has not been called since. connect() sets isConnectingRef
\* and the channel handle together; disconnect() resets the handle; the
\* other steps that reset isConnectingRef (ontrack, onconnectionstatechange)
\* run on an open RTCPeerConnection, which only the timeout and disconnect()
\* close.
Abandoned ==
  /\ channelRef # NULL
  /\ ~isConnectingRef
  /\ ~ViewerPcOpen

\* C34: after the abandonment timeout has fired, the viewer performs no
\* further signaling until connect() is called again: a step other than
\* connect(), the handling of a late offer or ice-candidate included, makes
\* no transport, starts no handler that would publish an answer, and leaves
\* the connected flag as it is.
C34_QuietAfterAbandonment ==
  [][(Abandoned /\ ~connect) =>
       /\ ~ViewerPcOpen'
       /\ offerTasks' = <<>>
       /\ isConnected' = isConnected]_vars


\* C35: whenever a viewer that has recorded a join is neither connecting nor
\* connected (after disconnect(), after the abandonment timeout, or after a
\* transport failure) and every live_viewers write it issued has landed, its
\* row carries a leave timestamp.
C35_NoOpenRecordWhenIdle ==
  (~isConnecting /\ ~isConnected /\ presenceInFlight = {}
     /\ presenceRow # "none")
    => presenceRow = "left"


\* C36: every connect() that sets the connecting flag is followed, without a
\* call of disconnect(), by the viewer leaving the connecting state, to
\* connected or to not connected, also when the subscription never reports
\* SUBSCRIBED: the viewer never stays connecting forever.
C36_ConnectingEnds == isConnecting ~> ~isConnecting

\* ------------------------------------- properties, the broadcaster's start
\* C33: when startStream without an external URL returns successfully, the
\* broadcaster is subscribed to the signaling topic of the new stream and to
\* the notifications of its viewers: setupSignaling has not returned early
\* for want of a stream key or a stream id.
C33_StartSubscribes ==
  [][(StreamInserted /\ ~startExt) =>
       /\ bChannelRef' = state'.streamId
       /\ state'.streamId \in bSubs']_vars
====
